---- MODULE Spec2Model ----
(***************************************************************************)
(* Model of the Segment webhook service of src/main.py: the filter chain   *)
(* (should_process_event), the recent-event buffer (store_recent_event),   *)
(* the filter configuration (FILTER_CONFIG / update_filters) and the HTTP  *)
(* handlers that tie them together.                                        *)
(*                                                                         *)
(* JSON documents are tagged values, so that a field of the wrong type is  *)
(* a value of the model like any other:                                    *)
(*   [t |-> "str", v |-> "track"]   [t |-> "num", v |-> 5]                  *)
(*   [t |-> "bool", v |-> TRUE]     [t |-> "null"]                          *)
(*   [t |-> "list", v |-> <<...>>]  [t |-> "dict", v |-> [key |-> value]]   *)
(* Python strings are TLA+ strings; lower(), substring tests, splitting    *)
(* and timestamp parsing work on their characters.  Instants are whole     *)
(* seconds since 1970-01-01T00:00:00Z.                                     *)
(***************************************************************************)
EXTENDS Integers, Sequences, FiniteSets, TLC

VARIABLES
    FILTER_CONFIG,   \* the module-level dict of src/main.py:37
    recent_events,   \* the module-level list of src/main.py:418
    now,             \* the reading of the system clock (datetime.now)
    response,        \* what the last handler call returned to its caller
    steps,           \* the steps the last handler call went through
    arrivals,        \* history: every event handed to store_recent_event, in order
    evals,           \* history: every call of should_process_event made so far
    pc               \* where each handler that has been entered and not left stands

vars == <<FILTER_CONFIG, recent_events, now, response, steps, arrivals, evals, pc>>

----------------------------------------------------------------------------
(* JSON values as Python objects *)

JStr(s) == [t |-> "str", v |-> s]
JNum(n) == [t |-> "num", v |-> n]
JBool(b) == [t |-> "bool", v |-> b]
JNull == [t |-> "null"]
JList(q) == [t |-> "list", v |-> q]
JDict(f) == [t |-> "dict", v |-> f]
EmptyDict == JDict(<<>>)

IsStr(x) == x.t = "str"
IsDict(x) == x.t = "dict"
IsList(x) == x.t = "list"
IsNumber(x) == x.t \in {"num", "bool"}
IsHashable(x) == x.t \notin {"list", "dict"}

\* bool is a subclass of int: True == 1, False == 0
NumberOf(x) == IF x.t = "bool" THEN (IF x.v THEN 1 ELSE 0) ELSE x.v

\* Python truth value, as tested by "if x" / "not x"
Truthy(x) ==
    CASE x.t = "null" -> FALSE
      [] x.t = "bool" -> x.v
      [] x.t = "num" -> x.v # 0
      [] x.t = "str" -> Len(x.v) > 0
      [] x.t = "list" -> Len(x.v) > 0
      [] x.t = "dict" -> DOMAIN x.v # {}

\* Python ==
PyEq(a, b) ==
    IF IsNumber(a) /\ IsNumber(b) THEN NumberOf(a) = NumberOf(b)
    ELSE IF a.t # b.t THEN FALSE
    ELSE IF a.t = "null" THEN TRUE
    ELSE a.v = b.v

\* dict.get(key, default) on a value known to be a dict
DictGet(d, key, default) == IF key \in DOMAIN d.v THEN d.v[key] ELSE default

----------------------------------------------------------------------------
(* Strings *)

UpperCase == "ABCDEFGHIJKLMNOPQRSTUVWXYZ"
LowerCase == "abcdefghijklmnopqrstuvwxyz"
Digits == "0123456789"

CharAt(s, i) == SubSeq(s, i, i)

IndexIn(alphabet, c) ==
    IF \E i \in 1..Len(alphabet) : CharAt(alphabet, i) = c
    THEN CHOOSE i \in 1..Len(alphabet) : CharAt(alphabet, i) = c
    ELSE 0

LowerChar(c) ==
    LET i == IndexIn(UpperCase, c) IN IF i = 0 THEN c ELSE CharAt(LowerCase, i)

RECURSIVE Lower(_)
\* str.lower()
Lower(s) == IF Len(s) = 0 THEN "" ELSE LowerChar(CharAt(s, 1)) \o Lower(Tail(s))

\* "p in s" for two strings
Contains(p, s) ==
    \E i \in 0..(Len(s) - Len(p)) : SubSeq(s, i + 1, i + Len(p)) = p

RECURSIVE ReplaceChar(_, _, _)
\* str.replace(c, by) for a one-character c
ReplaceChar(s, c, by) ==
    IF Len(s) = 0 THEN ""
    ELSE (IF CharAt(s, 1) = c THEN by ELSE CharAt(s, 1)) \o ReplaceChar(Tail(s), c, by)

RECURSIVE Split(_, _)
\* str.split(c) for a one-character c: always at least one piece
Split(s, c) ==
    IF \E i \in 1..Len(s) : CharAt(s, i) = c
    THEN LET i == CHOOSE k \in 1..Len(s) :
                    CharAt(s, k) = c /\ \A j \in 1..(k - 1) : CharAt(s, j) # c
         IN <<SubSeq(s, 1, i - 1)>> \o Split(SubSeq(s, i + 1, Len(s)), c)
    ELSE <<s>>

IsDigit(c) == IndexIn(Digits, c) # 0
AllDigits(s) == \A i \in 1..Len(s) : IsDigit(CharAt(s, i))

RECURSIVE ToInt(_)
\* int() of a string of digits
ToInt(s) ==
    IF Len(s) = 0 THEN 0
    ELSE 10 * ToInt(SubSeq(s, 1, Len(s) - 1)) + (IndexIn(Digits, CharAt(s, Len(s))) - 1)

RECURSIVE NatToStr(_)
NatToStr(n) ==
    IF n < 10 THEN CharAt(Digits, n + 1)
    ELSE NatToStr(n \div 10) \o CharAt(Digits, (n % 10) + 1)

IntToStr(n) == IF n < 0 THEN "-" \o NatToStr(0 - n) ELSE NatToStr(n)

\* The keys of a dict in the order its items are rendered: TLC's fixed
\* enumeration order of the key set.
RECURSIVE KeyOrder(_)
KeyOrder(S) ==
    IF S = {} THEN <<>>
    ELSE LET k == CHOOSE x \in S : TRUE IN <<k>> \o KeyOrder(S \ {k})

RECURSIVE PyRepr(_)
RECURSIVE ReprItems(_, _)
RECURSIVE ReprElems(_)
\* repr(): what str() shows of a value nested in a container
PyRepr(x) ==
    CASE x.t = "null" -> "None"
      [] x.t = "bool" -> (IF x.v THEN "True" ELSE "False")
      [] x.t = "num" -> IntToStr(x.v)
      [] x.t = "str" -> "'" \o x.v \o "'"
      [] x.t = "list" -> "[" \o ReprElems(x.v) \o "]"
      [] x.t = "dict" -> "{" \o ReprItems(x.v, KeyOrder(DOMAIN x.v)) \o "}"

ReprItems(f, keys) ==
    IF keys = <<>> THEN ""
    ELSE "'" \o Head(keys) \o "': " \o PyRepr(f[Head(keys)])
         \o (IF Len(keys) > 1 THEN ", " ELSE "") \o ReprItems(f, Tail(keys))

ReprElems(q) ==
    IF q = <<>> THEN ""
    ELSE PyRepr(Head(q)) \o (IF Len(q) > 1 THEN ", " ELSE "") \o ReprElems(Tail(q))

\* str()
PyStr(x) == IF x.t = "str" THEN x.v ELSE PyRepr(x)

----------------------------------------------------------------------------
(* Results of Python expressions that may raise *)

Ret(b) == [tag |-> "return", val |-> b]
Raise(e) == [tag |-> "raise", exc |-> e]
IsRaise(r) == r.tag = "raise"

\* "x in c"
PyIn(x, c) ==
    CASE c.t = "list" -> Ret(\E i \in 1..Len(c.v) : PyEq(c.v[i], x))
      [] c.t = "str" -> (IF IsStr(x) THEN Ret(Contains(x.v, c.v)) ELSE Raise("TypeError"))
      [] c.t = "dict" -> (IF IsHashable(x) THEN Ret(IsStr(x) /\ x.v \in DOMAIN c.v)
                          ELSE Raise("TypeError"))
      [] OTHER -> Raise("TypeError")

\* len(x)
PyLen(x) ==
    CASE x.t \in {"str", "list"} -> Ret(Len(x.v))
      [] x.t = "dict" -> Ret(Cardinality(DOMAIN x.v))
      [] OTHER -> Raise("TypeError")

\* The values "for p in c" goes through, in order; <<>> with ok = FALSE when c
\* is not iterable.
PyIter(c) ==
    CASE c.t = "list" -> [ok |-> TRUE, items |-> c.v]
      [] c.t = "str" -> [ok |-> TRUE, items |-> [i \in 1..Len(c.v) |-> JStr(CharAt(c.v, i))]]
      [] c.t = "dict" -> [ok |-> TRUE,
                          items |-> LET ks == KeyOrder(DOMAIN c.v)
                                    IN [i \in 1..Len(ks) |-> JStr(ks[i])]]
      [] OTHER -> [ok |-> FALSE, items |-> <<>>]

----------------------------------------------------------------------------
(* Timestamps *)

IsLeap(y) == (y % 4 = 0 /\ y % 100 # 0) \/ y % 400 = 0

DaysInMonth(y, m) ==
    IF m = 2 THEN (IF IsLeap(y) THEN 29 ELSE 28)
    ELSE IF m \in {4, 6, 9, 11} THEN 30 ELSE 31

\* Days from 1970-01-01 to y-m-d in the proleptic Gregorian calendar
DaysFromCivil(y, m, d) ==
    LET yy == IF m <= 2 THEN y - 1 ELSE y
        era == yy \div 400
        yoe == yy - era * 400
        mp == (m + 9) % 12
        doy == (153 * mp + 2) \div 5 + d - 1
        doe == yoe * 365 + yoe \div 4 - yoe \div 100 + doy
    IN era * 146097 + doe - 719468

EpochSeconds(y, m, d, hh, mi, ss) ==
    DaysFromCivil(y, m, d) * 86400 + hh * 3600 + mi * 60 + ss

NoTime == [ok |-> FALSE]

\* date(y, m, d): the day number, when the three numbers name a date
CivilDate(y, m, d) ==
    IF y >= 1 /\ m \in 1..12 /\ d >= 1 /\ d <= DaysInMonth(y, m)
    THEN [ok |-> TRUE, days |-> DaysFromCivil(y, m, d)]
    ELSE NoTime

\* "YYYY-MM-DD" -> the day number, when it names a date
ParseDate(s) ==
    IF /\ Len(s) = 10
       /\ AllDigits(SubSeq(s, 1, 4)) /\ CharAt(s, 5) = "-"
       /\ AllDigits(SubSeq(s, 6, 7)) /\ CharAt(s, 8) = "-"
       /\ AllDigits(SubSeq(s, 9, 10))
    THEN CivilDate(ToInt(SubSeq(s, 1, 4)), ToInt(SubSeq(s, 6, 7)), ToInt(SubSeq(s, 9, 10)))
    ELSE NoTime

\* time(hh, mi, ss): seconds into the day, when the three numbers name a time
ClockTime(hh, mi, ss) ==
    IF hh < 24 /\ mi < 60 /\ ss < 60
    THEN [ok |-> TRUE, secs |-> hh * 3600 + mi * 60 + ss]
    ELSE NoTime

\* "HH:MM" or "HH:MM:SS" -> seconds into the day
ParseClock(s) ==
    IF /\ Len(s) \in {5, 8}
       /\ AllDigits(SubSeq(s, 1, 2)) /\ CharAt(s, 3) = ":"
       /\ AllDigits(SubSeq(s, 4, 5))
       /\ (Len(s) = 8 => CharAt(s, 6) = ":" /\ AllDigits(SubSeq(s, 7, 8)))
    THEN ClockTime(ToInt(SubSeq(s, 1, 2)), ToInt(SubSeq(s, 4, 5)),
                   IF Len(s) = 8 THEN ToInt(SubSeq(s, 7, 8)) ELSE 0)
    ELSE NoTime

\* The position of the first character of s that is in chars, Len(s) + 1
\* when there is none
FirstOf(s, chars) ==
    IF \E i \in 1..Len(s) : CharAt(s, i) \in chars
    THEN CHOOSE k \in 1..Len(s) :
             CharAt(s, k) \in chars /\ \A j \in 1..(k - 1) : CharAt(s, j) \notin chars
    ELSE Len(s) + 1

\* "HH:MM:SS" followed by a fraction that starts at position i
ClockWithFraction(s, i, fracLens) ==
    IF i = 9 /\ (Len(s) - i) \in fracLens /\ AllDigits(SubSeq(s, i + 1, Len(s)))
    THEN ParseClock(SubSeq(s, 1, 8))
    ELSE NoTime

\* the time of day with an optional fraction of `fracLens` digits; the
\* fraction is below the clock's resolution of one second and is dropped
ParseTimeOfDay(s, fracLens) ==
    IF \E i \in 1..Len(s) : CharAt(s, i) = "."
    THEN ClockWithFraction(s, FirstOf(s, {"."}), fracLens)
    ELSE ParseClock(s)

\* "+HH:MM" / "-HH:MM" -> the offset from UTC in seconds
SignedOffset(c, sign) ==
    IF c.ok THEN [ok |-> TRUE, secs |-> IF sign = "-" THEN 0 - c.secs ELSE c.secs]
    ELSE NoTime

ParseOffset(s) ==
    IF Len(s) = 6 /\ CharAt(s, 1) \in {"+", "-"}
    THEN SignedOffset(ParseClock(SubSeq(s, 2, 6)), CharAt(s, 1))
    ELSE NoTime

\* datetime.fromisoformat(s): YYYY-MM-DD[*HH:MM[:SS[.fff[fff]]][+HH:MM]].
\* The result is [ok, secs, aware]: secs is the instant when aware, and the
\* wall-clock reading taken as UTC when not.
Midnight == [ok |-> TRUE, secs |-> 0]
NoOffset == [ok |-> TRUE, secs |-> 0]

\* datetime(date, time, tzinfo), when the three parts were read
DateTime(d, tod, off, aware) ==
    IF d.ok /\ tod.ok /\ off.ok
    THEN [ok |-> TRUE, secs |-> d.days * 86400 + tod.secs - off.secs, aware |-> aware]
    ELSE NoTime

\* The part after the date and its separator: the time of day up to position
\* z, where the offset starts when z is within rest
TimeAndZone(d, rest, z) ==
    DateTime(d, ParseTimeOfDay(SubSeq(rest, 1, z - 1), {3, 6}),
             IF z <= Len(rest) THEN ParseOffset(SubSeq(rest, z, Len(rest))) ELSE NoOffset,
             z <= Len(rest))

fromisoformat(s) ==
    IF Len(s) < 10 THEN NoTime
    ELSE IF Len(s) = 10 THEN DateTime(ParseDate(s), Midnight, NoOffset, FALSE)
    ELSE IF Len(s) = 11 THEN NoTime
    ELSE TimeAndZone(ParseDate(SubSeq(s, 1, 10)), SubSeq(s, 12, Len(s)),
                     FirstOf(SubSeq(s, 12, Len(s)), {"+", "-"}))

\* datetime.strptime(s, '%Y-%m-%dT%H:%M:%S.%fZ') on the zero-padded layout:
\* a fraction of one to six digits and a literal Z are required.
strptime(s) ==
    IF Len(s) >= 22 /\ CharAt(s, Len(s)) = "Z" /\ CharAt(s, 11) = "T"
    THEN DateTime(ParseDate(SubSeq(s, 1, 10)),
                  ParseTimeOfDay(SubSeq(s, 12, Len(s) - 1), 1..6), NoOffset, FALSE)
    ELSE NoTime

----------------------------------------------------------------------------
(* The filter configuration *)

ConfigKeys ==
    {"allowed_event_types", "allowed_track_events", "required_properties",
     "property_filters", "ignore_test_events", "test_patterns",
     "filter_by_date", "date_field", "max_age_hours"}

\* FILTER_CONFIG as the module sets it when it is loaded
DefaultConfig ==
    [allowed_event_types |-> JList(<<JStr("track"), JStr("identify"), JStr("page"), JStr("screen")>>),
     allowed_track_events |-> JList(<<JStr("Button Clicked"), JStr("Purchase Completed"),
                                      JStr("User Signup"), JStr("Page Viewed"),
                                      JStr("Product Added"), JStr("Checkout Started")>>),
     required_properties |-> EmptyDict,
     property_filters |-> EmptyDict,
     ignore_test_events |-> JBool(TRUE),
     test_patterns |-> JList(<<JStr("test"), JStr("debug"), JStr("dev"), JStr("local")>>),
     filter_by_date |-> JBool(TRUE),
     date_field |-> JStr("timestamp"),
     max_age_hours |-> JNum(24)]

----------------------------------------------------------------------------
(* The filter chain *)

\* What a stage hands on: Pass to go to the next stage, Reject(k) when the
\* stage's own "return False" is taken (k is the stage whose log line is
\* written), Raise(e) when an exception leaves it.
Pass == [tag |-> "pass"]
Reject(k) == [tag |-> "return", val |-> FALSE, stage |-> k]
Accept == [tag |-> "return", val |-> TRUE, stage |-> 0]
IsPass(r) == r.tag = "pass"

\* "if not <r>: return False" of stage k, then rest; an exception raised by
\* the test leaves the function
Unless(r, k, rest) == IF IsRaise(r) THEN r ELSE IF ~r.val THEN Reject(k) ELSE rest

\* "if <r>: return False" of stage k, then rest
RejectIf(r, k, rest) == IF IsRaise(r) THEN r ELSE IF r.val THEN Reject(k) ELSE rest

\* One stage after the other: rest is evaluated only when s passed
Then(s, rest) == IF IsPass(s) THEN rest ELSE s

RECURSIVE WalkKeys(_, _)
WalkKeys(value, keys) ==
    IF keys = <<>> THEN value
    ELSE IF IsDict(value) /\ Head(keys) \in DOMAIN value.v
         THEN WalkKeys(value.v[Head(keys)], Tail(keys))
         ELSE JNull   \* KeyError, or TypeError on a value that is no dict

\* get_nested_value(data, path): None is JNull
get_nested_value(data, path) == WalkKeys(data, Split(path, "."))

\* The first format that reads the string
FirstOk(first, second) == IF first.ok THEN first ELSE second

\* lines 258-263: fromisoformat with Z as +00:00, else the strptime format
ParseTimestamp(s) == FirstOk(fromisoformat(ReplaceChar(s, "Z", "+00:00")), strptime(s))

\* is_event_from_today with < for <=: an event of exactly the maximum age
\* is stale
is_event_from_today_exclusive(data) ==
    LET timestamp_field == FILTER_CONFIG["date_field"] IN
    IF ~IsHashable(timestamp_field) THEN Raise("TypeError")
    ELSE
    LET timestamp_str == IF IsStr(timestamp_field)
                         THEN DictGet(data, timestamp_field.v, JNull)
                         ELSE JNull
    IN
    IF ~Truthy(timestamp_str) THEN Ret(TRUE)
    ELSE IF ~IsStr(timestamp_str) THEN Ret(TRUE)
    ELSE
    LET event_time == ParseTimestamp(timestamp_str.v)
        max_age_hours == FILTER_CONFIG["max_age_hours"]
    IN
    IF ~event_time.ok THEN Ret(TRUE)
    ELSE IF ~IsNumber(max_age_hours) THEN Ret(TRUE)
    ELSE Ret(now - event_time.secs < NumberOf(max_age_hours) * 3600)

\* lines 277-287: the age test on the parsed time
WithinMaxAge(event_time, max_age_hours) ==
    IF ~event_time.ok THEN Ret(TRUE)                 \* except Exception
    ELSE IF ~IsNumber(max_age_hours) THEN Ret(TRUE)  \* TypeError in <=, caught
    ELSE \* hours_diff <= max_age_hours, with hours_diff = seconds / 3600
         Ret(now - event_time.secs <= NumberOf(max_age_hours) * 3600)

\* lines 249-287: the test on the value of the date field
TimestampIsRecent(timestamp_str) ==
    IF ~Truthy(timestamp_str) THEN Ret(TRUE)
    ELSE IF ~IsStr(timestamp_str) THEN Ret(TRUE)
    ELSE WithinMaxAge(ParseTimestamp(timestamp_str.v), FILTER_CONFIG["max_age_hours"])

\* is_event_from_today(data), reading FILTER_CONFIG and the clock
is_event_from_today(data) ==
    LET timestamp_field == FILTER_CONFIG["date_field"] IN
    IF ~IsHashable(timestamp_field) THEN Raise("TypeError")   \* data.get(unhashable)
    ELSE TimestampIsRecent(IF IsStr(timestamp_field)
                           THEN DictGet(data, timestamp_field.v, JNull)
                           ELSE JNull)

\* stage 1: the event type allow-list
StageType(event_type) ==
    Unless(PyIn(JStr(event_type), FILTER_CONFIG["allowed_event_types"]), 1, Pass)

\* stage 2: the track event allow-list
StageTrack(data, event_type) ==
    IF event_type # "track" THEN Pass
    ELSE LET event_name == DictGet(data, "event", JStr(""))
             allowed_events == FILTER_CONFIG["allowed_track_events"]
         IN IF ~Truthy(allowed_events) THEN Pass
            ELSE Unless(PyIn(event_name, allowed_events), 2, Pass)

RECURSIVE AnyPattern(_, _)
\* any(pattern in field_lower for pattern in patterns), patterns a sequence
AnyPattern(patterns, field_lower) ==
    IF patterns = <<>> THEN Ret(FALSE)
    ELSE IF ~IsStr(Head(patterns)) THEN Raise("TypeError")
    ELSE IF Contains(Head(patterns).v, field_lower) THEN Ret(TRUE)
    ELSE AnyPattern(Tail(patterns), field_lower)

\* any(...) over what iterating the configured patterns gives
AnyOf(it, field_lower) ==
    IF it.ok THEN AnyPattern(it.items, field_lower) ELSE Raise("TypeError")

RECURSIVE CheckFields(_, _)
CheckFields(fields, test_patterns) ==
    IF fields = <<>> THEN Pass
    ELSE RejectIf(AnyOf(PyIter(test_patterns), Lower(PyStr(Head(fields)))), 3,
                  CheckFields(Tail(fields), test_patterns))

\* stage 3: the test patterns
StageTest(data) ==
    IF ~Truthy(FILTER_CONFIG["ignore_test_events"]) THEN Pass
    ELSE CheckFields(<<DictGet(data, "event", JStr("")),
                       DictGet(data, "userId", JStr("")),
                       JStr(PyStr(DictGet(data, "properties", EmptyDict))),
                       JStr(PyStr(DictGet(data, "traits", EmptyDict)))>>,
                     FILTER_CONFIG["test_patterns"])

RECURSIVE CheckRequired(_, _)
CheckRequired(data, props) ==
    IF props = <<>> THEN Pass
    ELSE LET prop == Head(props) IN
         IF ~IsHashable(prop) THEN Raise("TypeError")   \* prop not in data
         ELSE IF ~IsStr(prop) \/ prop.v \notin DOMAIN data.v THEN Reject(4)
         ELSE IF ~Truthy(data.v[prop.v]) THEN Reject(4)
         ELSE CheckRequired(data, Tail(props))

\* the loop over what iterating the configured list gives
RequiredOf(data, it) ==
    IF ~it.ok THEN Raise("TypeError") ELSE CheckRequired(data, it.items)

\* stage 4: the required properties of the event's type
StageRequired(data, event_type) ==
    LET required_properties == FILTER_CONFIG["required_properties"] IN
    IF ~IsDict(required_properties) THEN Raise("AttributeError")   \* .get
    ELSE RequiredOf(data, PyIter(DictGet(required_properties, event_type, JList(<<>>))))

\* "if value and value not in allowed_values: return False", then rest
ValueAllowed(value, allowed_values, rest) ==
    IF ~Truthy(value) THEN rest ELSE Unless(PyIn(value, allowed_values), 5, rest)

RECURSIVE CheckFilters(_, _, _)
CheckFilters(data, property_filters, paths) ==
    IF paths = <<>> THEN Pass
    ELSE ValueAllowed(get_nested_value(data, Head(paths)), property_filters[Head(paths)],
                      CheckFilters(data, property_filters, Tail(paths)))

\* stage 5: the property value filters
StageFilters(data) ==
    LET property_filters == FILTER_CONFIG["property_filters"] IN
    IF ~IsDict(property_filters) THEN Raise("AttributeError")   \* .items()
    ELSE CheckFilters(data, property_filters.v, KeyOrder(DOMAIN property_filters.v))

\* stage 6: the age of the event
StageDate(data) ==
    IF ~Truthy(FILTER_CONFIG["filter_by_date"]) THEN Pass
    ELSE Unless(is_event_from_today(data), 6, Pass)

\* The stages after the type is known, in the order of the code; each is
\* evaluated only when every earlier one passed.
StagesFrom(data, event_type) ==
    Then(StageType(event_type),
    Then(StageTrack(data, event_type),
    Then(StageTest(data),
    Then(StageRequired(data, event_type),
    Then(StageFilters(data),
    Then(StageDate(data),
    Accept))))))

\* should_process_event remembering what it saw: an event already in the
\* buffer is rejected as a duplicate
should_process_event_once(data) ==
    IF \E i \in 1..Len(recent_events) : recent_events[i].data = data THEN Reject(0)
    ELSE IF ~IsDict(data) THEN Raise("AttributeError")
    ELSE LET type == DictGet(data, "type", JStr("")) IN
         IF ~IsStr(type) THEN Raise("AttributeError")
         ELSE StagesFrom(data, Lower(type.v))

\* should_process_event(data): Accept, Reject(stage) or Raise(exception)
should_process_event(data) ==
    IF ~IsDict(data) THEN Raise("AttributeError")          \* data.get
    ELSE LET type == DictGet(data, "type", JStr("")) IN
         IF ~IsStr(type) THEN Raise("AttributeError")      \* .lower()
         ELSE StagesFrom(data, Lower(type.v))

----------------------------------------------------------------------------
(* The recent-event buffer *)

MAX_RECENT_EVENTS == 50

\* store_recent_event without the pop: the list only grows
store_without_eviction(event_data) ==
    Append(recent_events, [timestamp |-> now, data |-> event_data])

\* store_recent_event with pop() for pop(0): the newest entry is dropped
store_evicting_newest(event_data) ==
    LET appended == Append(recent_events, [timestamp |-> now, data |-> event_data])
    IN IF Len(appended) > MAX_RECENT_EVENTS
       THEN SubSeq(appended, 1, Len(appended) - 1) ELSE appended

\* store_recent_event(event_data): the list after the call.  The entry's
\* timestamp is the clock reading (datetime.now().isoformat()).
store_recent_event(event_data) ==
    LET appended == Append(recent_events, [timestamp |-> now, data |-> event_data])
    IN IF Len(appended) > MAX_RECENT_EVENTS THEN Tail(appended) ELSE appended

----------------------------------------------------------------------------
(* Request bodies and responses *)

\* A request body is bytes; json.loads either raises on them or yields a
\* document.
Malformed == [parses |-> FALSE]
Body(data) == [parses |-> TRUE, data |-> data]

\* A JSONResponse / returned dict with status 200, or an HTTPException
OK(content) == [code |-> 200, content |-> content]
HTTPException(status_code, detail) == [code |-> status_code, detail |-> detail]

NoResponse == [code |-> 0]
NoSteps == [op |-> "none"]

\* len(data.get(field, {})) inside a process_*_event function
CountOf(data, field) == PyLen(DictGet(data, field, EmptyDict))

\* The dispatch of lines 135-146: the handler chosen by the event's type as
\* received (not lower-cased), and the result it returns or the exception
\* that leaves it.
process_event(data) ==
    LET event_type == DictGet(data, "type", JStr("unknown")) IN
    CASE PyEq(event_type, JStr("track")) ->
            [handler |-> "process_track_event", result |-> CountOf(data, "properties")]
      [] PyEq(event_type, JStr("identify")) ->
            [handler |-> "process_identify_event", result |-> CountOf(data, "traits")]
      [] PyEq(event_type, JStr("page")) ->
            [handler |-> "process_page_event", result |-> CountOf(data, "properties")]
      [] PyEq(event_type, JStr("screen")) ->
            [handler |-> "process_screen_event", result |-> CountOf(data, "properties")]
      [] OTHER ->
            [handler |-> "process_unknown_event", result |-> Ret(0)]

\* segment_webhook storing the event only once the filter accepted it
WebhookRun_store_after_filter(body) ==
    IF ~body.parses
    THEN [buffer |-> recent_events,
          response |-> HTTPException(500, "Erro interno: 400: Invalid JSON"),
          steps |-> [op |-> "segment_webhook", body |-> body, parsed |-> FALSE,
                     stored |-> FALSE, decision |-> [tag |-> "none"], handler |-> "none"]]
    ELSE LET data == body.data
             decision == should_process_event(data)
             accepted == ~IsRaise(decision) /\ decision.val
             run == process_event(data)
         IN [buffer |-> IF accepted THEN store_recent_event(data) ELSE recent_events,
             response |->
                 IF IsRaise(decision) THEN HTTPException(500, "Erro interno: " \o decision.exc)
                 ELSE IF ~decision.val THEN OK([status |-> "filtered"])
                 ELSE IF IsRaise(run.result)
                      THEN HTTPException(500, "Erro interno: " \o run.result.exc)
                 ELSE OK([status |-> "success",
                          event_type |-> DictGet(data, "type", JStr("unknown")),
                          result |-> [processed |-> TRUE, count |-> run.result.val]]),
             steps |-> [op |-> "segment_webhook", body |-> body, parsed |-> TRUE,
                        stored |-> accepted, decision |-> decision,
                        handler |-> IF accepted THEN run.handler ELSE "none"]]

\* lines 120-157: the call on a parsed body, given what should_process_event
\* decides and what the dispatch does when it is reached
ParsedRun(body, decision, run) ==
    [buffer |-> store_recent_event(body.data),
     response |->
         IF IsRaise(decision) THEN HTTPException(500, "Erro interno: " \o decision.exc)
         ELSE IF ~decision.val THEN OK([status |-> "filtered"])
         ELSE IF IsRaise(run.result)
              THEN HTTPException(500, "Erro interno: " \o run.result.exc)
         ELSE OK([status |-> "success",
                  event_type |-> DictGet(body.data, "type", JStr("unknown")),
                  result |-> [processed |-> TRUE, count |-> run.result.val]]),
     steps |-> [op |-> "segment_webhook", body |-> body, parsed |-> TRUE,
                stored |-> TRUE, decision |-> decision,
                handler |-> IF ~IsRaise(decision) /\ decision.val
                            THEN run.handler ELSE "none"]]

\* What one call of segment_webhook does after the body was read: the new
\* buffer, the response, and the steps it went through.
\*   body      the request body of the call
\*   stored    store_recent_event was called
\*   decision  what should_process_event gave ("none" when it was not called)
\*   handler   the process_*_event function that ran ("none" when none did)
WebhookRun(body) ==
    IF ~body.parses
    THEN \* json.JSONDecodeError -> HTTPException(400), raised inside the outer
         \* try and caught by its "except Exception"
         [buffer |-> recent_events,
          response |-> HTTPException(500, "Erro interno: 400: Invalid JSON"),
          steps |-> [op |-> "segment_webhook", body |-> body, parsed |-> FALSE,
                     stored |-> FALSE, decision |-> [tag |-> "none"], handler |-> "none"]]
    ELSE ParsedRun(body, should_process_event(body.data), process_event(body.data))

\* The effect of a call on the buffer, the response sent, the steps taken
Handled(run) ==
    /\ recent_events' = run.buffer
    /\ response' = run.response
    /\ steps' = run.steps

\* POST /webhook/segment
segment_webhook(body) ==
    /\ Handled(WebhookRun(body))
    /\ UNCHANGED <<FILTER_CONFIG, now>>

\* update_filters as FILTER_CONFIG.update(new_config): unknown keys are added
merge_config_adding_keys(new_config) ==
    [key \in DOMAIN FILTER_CONFIG \cup DOMAIN new_config |->
        IF key \in DOMAIN new_config THEN new_config[key] ELSE FILTER_CONFIG[key]]

\* The loop of update_filters: the config after merging new_config
merge_config(new_config) ==
    [key \in DOMAIN FILTER_CONFIG |->
        IF key \in DOMAIN new_config THEN new_config[key] ELSE FILTER_CONFIG[key]]

\* POST /webhook/filters; new_config is the JSON object of the request
update_filters(new_config) ==
    /\ FILTER_CONFIG' = merge_config(new_config)
    /\ response' = OK([status |-> "success", updated_filters |-> FILTER_CONFIG'])
    /\ steps' = [op |-> "update_filters"]
    /\ UNCHANGED <<recent_events, now>>

\* GET /webhook/filters
get_filters ==
    /\ response' = OK([status |-> "success", filters |-> FILTER_CONFIG])
    /\ steps' = [op |-> "get_filters"]
    /\ UNCHANGED <<FILTER_CONFIG, recent_events, now>>

\* recent_events[-10:]
LastTen(q) == SubSeq(q, IF Len(q) > 10 THEN Len(q) - 9 ELSE 1, Len(q))

\* GET /webhook/recent
get_recent_events ==
    /\ response' = OK([status |-> "success", total_events |-> Len(recent_events),
                       events |-> LastTen(recent_events)])
    /\ steps' = [op |-> "get_recent_events"]
    /\ UNCHANGED <<FILTER_CONFIG, recent_events, now>>

----------------------------------------------------------------------------
(* Statistics over the buffer *)

\* A Python dict used as a histogram, or a set, as the sequence of its keys
\* in insertion order; two keys are one when they are equal (1 == True).
HasKey(hist, key) == \E i \in 1..Len(hist) : PyEq(hist[i].key, key)

\* hist[key] = hist.get(key, 0) + 1
Incr(hist, key) ==
    IF HasKey(hist, key)
    THEN [i \in 1..Len(hist) |->
             IF PyEq(hist[i].key, key) THEN [hist[i] EXCEPT !.count = @ + 1] ELSE hist[i]]
    ELSE Append(hist, [key |-> key, count |-> 1])

\* users.add(user_id)
AddUser(users, user_id) ==
    IF \E i \in 1..Len(users) : PyEq(users[i], user_id) THEN users
    ELSE Append(users, user_id)

\* event_types, event_names and users before the loop
NoCounts == [tag |-> "counts", event_types |-> <<>>, event_names |-> <<>>, users |-> <<>>]

\* lines 466-468
TallyUser(acc, user_id) ==
    IF ~Truthy(user_id) THEN acc
    ELSE IF ~IsHashable(user_id) THEN Raise("TypeError")
    ELSE [acc EXCEPT !.users = AddUser(@, user_id)]

\* lines 462-468
TallyName(acc, data, is_track, event_name) ==
    IF ~is_track THEN TallyUser(acc, DictGet(data, "userId", JNull))
    ELSE IF ~IsHashable(event_name) THEN Raise("TypeError")
    ELSE TallyUser([acc EXCEPT !.event_names = Incr(@, event_name)],
                   DictGet(data, "userId", JNull))

\* lines 460-468
TallyType(acc, data, event_type) ==
    IF ~IsHashable(event_type) THEN Raise("TypeError")
    ELSE TallyName([acc EXCEPT !.event_types = Incr(@, event_type)], data,
                   PyEq(event_type, JStr("track")), DictGet(data, "event", JStr("unknown")))

\* One pass of the loop of get_webhook_stats, lines 458-468
Tally(acc, data) ==
    IF ~IsDict(data) THEN Raise("AttributeError")     \* data.get
    ELSE TallyType(acc, data, DictGet(data, "type", JStr("unknown")))

RECURSIVE TallyAll(_, _)
\* The loop of lines 457-468 over the entries of the buffer
TallyAll(acc, entries) ==
    IF entries = <<>> \/ IsRaise(acc) THEN acc
    ELSE TallyAll(Tally(acc, Head(entries).data), Tail(entries))

\* What the server answers when an exception leaves a handler
InternalServerError == [code |-> 500, detail |-> "Internal Server Error"]

\* lines 470-479, or the exception that left the loop
StatsResponse(acc) ==
    IF IsRaise(acc) THEN InternalServerError
    ELSE OK([status |-> "success",
             total_events |-> Len(recent_events),
             unique_users |-> Len(acc.users),
             event_types |-> acc.event_types,
             track_events |-> acc.event_names,
             first_event |-> recent_events[1].timestamp,
             last_event |-> recent_events[Len(recent_events)].timestamp])

\* get_webhook_stats emptying the buffer it has counted
StatsRun_draining ==
    [buffer |-> <<>>,
     response |-> IF recent_events = <<>>
                  THEN OK([status |-> "success", message |-> "Nenhum evento recebido ainda",
                           total_events |-> 0])
                  ELSE StatsResponse(TallyAll(NoCounts, recent_events)),
     steps |-> [op |-> "get_webhook_stats"]]

\* What one call of get_webhook_stats does: the buffer it leaves and the
\* response
StatsRun ==
    [buffer |-> recent_events,
     response |-> IF recent_events = <<>>
                  THEN OK([status |-> "success", message |-> "Nenhum evento recebido ainda",
                           total_events |-> 0])
                  ELSE StatsResponse(TallyAll(NoCounts, recent_events)),
     steps |-> [op |-> "get_webhook_stats"]]

\* GET /webhook/stats
get_webhook_stats ==
    /\ Handled(StatsRun)
    /\ UNCHANGED <<FILTER_CONFIG, now>>

----------------------------------------------------------------------------
(* Ordering of Python values *)

\* The printable ASCII characters in the order of their code points (but for
\* the backquote, which no string of the model holds)
Ascii ==
    " !\"#$%&'()*+,-./0123456789:;<=>?@ABCDEFGHIJKLMNOPQRSTUVWXYZ[\\]^_abcdefghijklmnopqrstuvwxyz{|}~"

CodePoint(c) == IndexIn(Ascii, c)

RECURSIVE StrLess(_, _)
\* a < b for two strings
StrLess(a, b) ==
    IF Len(b) = 0 THEN FALSE
    ELSE IF Len(a) = 0 THEN TRUE
    ELSE IF CharAt(a, 1) = CharAt(b, 1) THEN StrLess(Tail(a), Tail(b))
    ELSE CodePoint(CharAt(a, 1)) < CodePoint(CharAt(b, 1))

RECURSIVE PyLess(_, _)
RECURSIVE ListLess(_, _)
\* a < b: TypeError between values of different kinds and between dicts
PyLess(a, b) ==
    IF IsStr(a) /\ IsStr(b) THEN Ret(StrLess(a.v, b.v))
    ELSE IF IsNumber(a) /\ IsNumber(b) THEN Ret(NumberOf(a) < NumberOf(b))
    ELSE IF IsList(a) /\ IsList(b) THEN ListLess(a.v, b.v)
    ELSE Raise("TypeError")

\* two lists compare by their first items that differ, else by length
ListLess(p, q) ==
    IF p = <<>> THEN Ret(q # <<>>)
    ELSE IF q = <<>> THEN Ret(FALSE)
    ELSE IF PyEq(Head(p), Head(q)) THEN ListLess(Tail(p), Tail(q))
    ELSE PyLess(Head(p), Head(q))

\* "x or ''" as a sort key
SortKey(x) == IF Truthy(x) THEN x ELSE JStr("")

\* list.sort compares the keys of a list of two or more items; it raises
\* when two of them do not compare
Sortable(pairs) ==
    \A i, j \in 1..Len(pairs) : i # j => ~IsRaise(PyLess(pairs[i].key, pairs[j].key))

RECURSIVE InsertAscending(_, _)
\* x, which came after every item of sorted, put behind the items that are
\* not greater than it (list.sort is stable)
InsertAscending(sorted, x) ==
    IF sorted = <<>> THEN <<x>>
    ELSE IF PyLess(x.key, Head(sorted).key).val THEN <<x>> \o sorted
    ELSE <<Head(sorted)>> \o InsertAscending(Tail(sorted), x)

RECURSIVE SortAscending(_)
\* sort(key=...) of sortable [key, item] pairs
SortAscending(pairs) ==
    IF pairs = <<>> THEN <<>>
    ELSE InsertAscending(SortAscending(SubSeq(pairs, 1, Len(pairs) - 1)), pairs[Len(pairs)])

RECURSIVE InsertDescending(_, _)
\* x put behind the items that are not less than it
InsertDescending(sorted, x) ==
    IF sorted = <<>> THEN <<x>>
    ELSE IF PyLess(Head(sorted).key, x.key).val THEN <<x>> \o sorted
    ELSE <<Head(sorted)>> \o InsertDescending(Tail(sorted), x)

RECURSIVE SortDescending(_)
\* sort(key=..., reverse=True) of sortable [key, item] pairs: items with equal
\* keys keep their order
SortDescending(pairs) ==
    IF pairs = <<>> THEN <<>>
    ELSE InsertDescending(SortDescending(SubSeq(pairs, 1, Len(pairs) - 1)), pairs[Len(pairs)])

\* The items of sorted pairs
Items(pairs) == [i \in 1..Len(pairs) |-> pairs[i].item]

----------------------------------------------------------------------------
(* Sessions over the buffer *)

\* container[key] for a string key
Item(container, key) ==
    IF ~IsDict(container) THEN Raise("TypeError")
    ELSE IF key \notin DOMAIN container.v THEN Raise("KeyError")
    ELSE Ret(container.v[key])

\* d.get(key, default) on any value
GetOf(d, key, default) ==
    IF ~IsDict(d) THEN Raise("AttributeError") ELSE Ret(DictGet(d, key, default))

\* d.get(key, {}).get(then)
GetGet(d, key, then) ==
    IF ~IsDict(d) THEN Raise("AttributeError")
    ELSE GetOf(DictGet(d, key, EmptyDict), then, JNull)

Found(value) == [tag |-> "return", found |-> TRUE, val |-> value]
NotFound == [tag |-> "return", found |-> FALSE, val |-> JNull]

RECURSIVE Find(_, _)
\* "k1 in v and k2 in v[k1] and ..." and then v[k1][k2]...
Find(value, keys) ==
    IF keys = <<>> THEN Found(value)
    ELSE IF IsRaise(PyIn(JStr(Head(keys)), value)) THEN PyIn(JStr(Head(keys)), value)
    ELSE IF ~PyIn(JStr(Head(keys)), value).val THEN NotFound
    ELSE IF IsRaise(Item(value, Head(keys))) THEN Item(value, Head(keys))
    ELSE Find(Item(value, Head(keys)).val, Tail(keys))

\* the elif of line 697, taken when line 695 found nothing
OrElse(first, second) == IF IsRaise(first) \/ first.found THEN first ELSE second

\* lines 694-698: the session id of an event, None when neither place has one
SessionId(event_data) ==
    OrElse(Find(event_data, <<"properties", "session_id">>),
           Find(event_data, <<"context", "traits", "session_id">>))

\* What lines 701-716 evaluate that may raise, and the order they do it in
EntryParts(event_data, session_id, context) ==
    [app_info |-> GetOf(context, "app", EmptyDict),
     device_info |-> GetOf(context, "device", EmptyDict),
     key |-> IF IsHashable(session_id) THEN Ret(session_id) ELSE Raise("TypeError"),
     app_version |-> GetGet(context, "app", "version"),
     device_model |-> GetGet(context, "device", "model"),
     os_version |-> GetGet(context, "os", "version"),
     timezone |-> GetOf(context, "timezone", JNull),
     network |-> GetOf(context, "network", EmptyDict),
     screen |-> GetGet(event_data, "properties", "screen_name")]

EntryOrder ==
    <<"app_info", "device_info", "key", "app_version", "device_model", "os_version",
      "timezone", "network", "screen">>

\* The first of the parts that raises, Ret(TRUE) when none does
FirstRaise(parts) ==
    IF \E i \in 1..Len(EntryOrder) : IsRaise(parts[EntryOrder[i]])
    THEN parts[EntryOrder[CHOOSE i \in 1..Len(EntryOrder) :
                              /\ IsRaise(parts[EntryOrder[i]])
                              /\ \A j \in 1..(i - 1) : ~IsRaise(parts[EntryOrder[j]])]]
    ELSE Ret(TRUE)

\* The dict appended at lines 705-717
Entry(event_data, session_id, parts) ==
    [session_id |-> session_id,
     event |-> DictGet(event_data, "event", JStr("unknown")),
     timestamp |-> DictGet(event_data, "timestamp", JStr("")),
     user_id |-> DictGet(event_data, "userId", JNull),
     anonymous_id |-> DictGet(event_data, "anonymousId", JNull),
     app_version |-> parts.app_version.val,
     device_model |-> parts.device_model.val,
     os_version |-> parts.os_version.val,
     timezone |-> parts.timezone.val,
     network |-> parts.network.val,
     screen |-> parts.screen.val]

\* sessions = defaultdict(list): its keys in insertion order, each with its list
NoSessions == [tag |-> "sessions", list |-> <<>>]

\* sessions[session_id].append(entry)
AppendTo(sessions, session_id, entry) ==
    [sessions EXCEPT !.list =
        IF HasKey(@, session_id)
        THEN [i \in 1..Len(@) |->
                 IF PyEq(@[i].key, session_id)
                 THEN [@[i] EXCEPT !.events = Append(@, entry)] ELSE @[i]]
        ELSE Append(@, [key |-> session_id, events |-> <<entry>>])]

\* lines 700-717 for an event with a session id
GroupEntry(sessions, event_data, session_id, parts) ==
    IF IsRaise(FirstRaise(parts)) THEN FirstRaise(parts)
    ELSE AppendTo(sessions, session_id, Entry(event_data, session_id, parts))

\* lines 694-717 given what the search for the session id found
GroupFound(sessions, event_data, sid) ==
    IF IsRaise(sid) THEN sid
    ELSE IF ~Truthy(sid.val) THEN sessions
    ELSE GroupEntry(sessions, event_data, sid.val,
                    EntryParts(event_data, sid.val, DictGet(event_data, "context", EmptyDict)))

RECURSIVE GroupAll(_, _)
\* The loop of lines 691-717 over the entries of the buffer
GroupAll(sessions, entries) ==
    IF entries = <<>> \/ IsRaise(sessions) THEN sessions
    ELSE GroupAll(GroupFound(sessions, Head(entries).data, SessionId(Head(entries).data)),
                  Tail(entries))

\* round(seconds / 60, 1) in tenths of a minute.  At a tie (an odd multiple
\* of three seconds) the even tenth is taken; Python rounds the binary
\* fraction nearest to the quotient, which lies on either side of the tie.
RoundTenths(seconds) ==
    IF seconds % 6 < 3 THEN seconds \div 6
    ELSE IF seconds % 6 > 3 THEN seconds \div 6 + 1
    ELSE IF (seconds \div 6) % 2 = 0 THEN seconds \div 6 ELSE seconds \div 6 + 1

\* datetime.fromisoformat(timestamp.replace('Z', '+00:00')), NoTime when
\* either call raises
IsoTime(timestamp) ==
    IF IsStr(timestamp) THEN fromisoformat(ReplaceChar(timestamp.v, "Z", "+00:00"))
    ELSE NoTime

\* lines 761-766: the minutes between two times, 0 when one was not read or
\* only one of them carries an offset
MinutesBetween(first_time, last_time) ==
    IF first_time.ok /\ last_time.ok /\ first_time.aware = last_time.aware
    THEN RoundTenths(last_time.secs - first_time.secs)
    ELSE 0

\* calculate_session_duration(events), in tenths of a minute
calculate_session_duration(events) ==
    IF Len(events) < 2 THEN 0
    ELSE MinutesBetween(IsoTime(events[1].timestamp), IsoTime(events[Len(events)].timestamp))

\* The [key, item] pairs list.sort works on
KeyedBy(items, field) ==
    [i \in 1..Len(items) |-> [key |-> SortKey(items[i][field]), item |-> items[i]]]

\* lines 725-739: the summary of a session from its sorted events
Summary(session_id, events) ==
    [session_id |-> session_id,
     user_id |-> events[1].user_id,
     anonymous_id |-> events[1].anonymous_id,
     device_model |-> events[1].device_model,
     os_version |-> events[1].os_version,
     timezone |-> events[1].timezone,
     network |-> events[1].network,
     events |-> [i \in 1..Len(events) |->
                    [event |-> events[i].event, timestamp |-> events[i].timestamp,
                     screen |-> events[i].screen]],
     total_events |-> Len(events),
     duration |-> calculate_session_duration(events),
     first_event_time |-> events[1].timestamp,
     last_event_time |-> events[Len(events)].timestamp]

\* The summary taking first_event before the sort: the attribution of the
\* event that came first
Processed_first_arrival(session) ==
    [Summary(session.key, Items(SortAscending(KeyedBy(session.events, "timestamp"))))
        EXCEPT !.user_id = session.events[1].user_id,
               !.anonymous_id = session.events[1].anonymous_id,
               !.device_model = session.events[1].device_model,
               !.os_version = session.events[1].os_version,
               !.timezone = session.events[1].timezone,
               !.network = session.events[1].network]

\* lines 721-739 for one session
Processed(session) ==
    Summary(session.key, Items(SortAscending(KeyedBy(session.events, "timestamp"))))

\* lines 720-739: the summaries in the order of the sessions, or the
\* TypeError of a sort
ProcessAll(list) ==
    IF \E i \in 1..Len(list) : ~Sortable(KeyedBy(list[i].events, "timestamp"))
    THEN Raise("TypeError")
    ELSE [tag |-> "processed", list |-> [i \in 1..Len(list) |-> Processed(list[i])]]

\* processed_sessions[:20]
FirstTwenty(q) == SubSeq(q, 1, IF Len(q) > 20 THEN 20 ELSE Len(q))

\* lines 742-749
RankAll(processed) ==
    IF IsRaise(processed) THEN processed
    ELSE IF ~Sortable(KeyedBy(processed.list, "last_event_time")) THEN Raise("TypeError")
    ELSE [tag |-> "ranked",
          list |-> Items(SortDescending(KeyedBy(processed.list, "last_event_time")))]

\* lines 744-753: the response, or the exception caught at line 751
SessionsResponse(ranked) ==
    IF IsRaise(ranked) THEN HTTPException(500, ranked.exc)
    ELSE OK([status |-> "success",
             total_sessions |-> Len(ranked.list),
             sessions |-> FirstTwenty(ranked.list)])

\* lines 688-739 given the groups
Analysis(sessions) ==
    IF IsRaise(sessions) THEN sessions ELSE RankAll(ProcessAll(sessions.list))

\* What one call of get_sessions_analysis does: the buffer it leaves and
\* the response
SessionsRun ==
    [buffer |-> recent_events,
     response |-> SessionsResponse(Analysis(GroupAll(NoSessions, recent_events))),
     steps |-> [op |-> "get_sessions_analysis"]]

\* GET /api/sessions
get_sessions_analysis ==
    /\ Handled(SessionsRun)
    /\ UNCHANGED <<FILTER_CONFIG, now>>

----------------------------------------------------------------------------
(* The environment: clock, request bodies, configuration updates *)

\* The clock starts at 2024-01-02T00:00:00Z.
Clock0 == EpochSeconds(2024, 1, 2, 0, 0, 0)

MaxIngest == 1      \* Spec: calls of segment_webhook that store an event
MaxObserved == 2    \* SpecPure: calls of segment_webhook that store an event
MaxTicks == 1       \* SpecPure: advances of the clock
TickSeconds == 60   \* seconds per advance of the clock
MaxStream == 52     \* SpecStore: events of the stream

\* A track event of user u1 that passes stages 1 to 5 of the default config,
\* with the given fields added or replaced.
Track(extra) ==
    JDict(extra @@ [type |-> JStr("track"), event |-> JStr("Button Clicked"),
                    userId |-> JStr("u1")])

Stamped(ts) == Track([timestamp |-> ts])

\* Timestamps with what each says, stated apart from the parser: the instant
\* named (says = "instant"), or "absent", "empty", "notstring", "unparseable".
TimestampSamples ==
    {[value |-> JStr("2024-01-01T00:00:01Z"), says |-> "instant",
      instant |-> EpochSeconds(2024, 1, 1, 0, 0, 1)],
     [value |-> JStr("2023-12-31T23:59:00Z"), says |-> "instant",
      instant |-> EpochSeconds(2023, 12, 31, 23, 59, 0)],
     [value |-> JStr("2024-01-01T00:00:00Z"), says |-> "instant",
      instant |-> EpochSeconds(2024, 1, 1, 0, 0, 0)],
     [value |-> JStr("2024-01-02T00:30:00Z"), says |-> "instant",
      instant |-> EpochSeconds(2024, 1, 2, 0, 30, 0)],
     [value |-> JStr("2023-12-31T23:30:00-01:00"), says |-> "instant",
      instant |-> EpochSeconds(2024, 1, 1, 0, 30, 0)],
     [value |-> JStr("2023-12-31T23:59:59.5Z"), says |-> "instant",
      instant |-> EpochSeconds(2023, 12, 31, 23, 59, 59)],
     [value |-> JStr("2024-01-01T00:00:01"), says |-> "instant",
      instant |-> EpochSeconds(2024, 1, 1, 0, 0, 1)],
     [value |-> JStr(""), says |-> "empty", instant |-> 0],
     [value |-> JNum(1704067201), says |-> "notstring", instant |-> 0],
     [value |-> JStr("yesterday"), says |-> "unparseable", instant |-> 0]}

StampedEvents == {Stamped(x.value) : x \in TimestampSamples}

\* Events that meet the other stages, and documents of unexpected shape
OtherEvents ==
    {Track(<<>>),
     Track([userId |-> JStr("test_user_42")]),
     Track([event |-> JStr("Order Refunded")]),
     Track([type |-> JStr("Track")]),
     JDict([type |-> JStr("track"), event |-> JStr("Button Clicked")]),
     JDict([type |-> JStr("identify"), userId |-> JStr("u2"),
            traits |-> JDict([plan |-> JStr("free")])]),
     JDict([type |-> JStr("identify"), userId |-> JStr("u3"),
            traits |-> JDict([plan |-> JStr("premium")])]),
     JDict([type |-> JStr("page"), userId |-> JStr("u1"), properties |-> JNum(5)]),
     JDict([event |-> JStr("Button Clicked"), userId |-> JStr("u1")]),
     JDict([type |-> JNum(5), userId |-> JStr("u1")]),
     JDict([type |-> JNull]),
     JList(<<JStr("track")>>)}

Events == StampedEvents \cup OtherEvents
Bodies == {Malformed} \cup {Body(e) : e \in Events}

\* JSON objects posted to /webhook/filters
Partials ==
    {[max_age_hours |-> JNum(1), unknownKey |-> JStr("x")],
     [max_age_hours |-> JNum(0 - 1)],
     [allowed_event_types |-> JList(<<JStr("Track"), JStr("identify")>>),
      allowed_track_events |-> JList(<<>>)],
     [required_properties |-> JDict([track |-> JList(<<JStr("userId")>>)]),
      property_filters |-> JDict("traits.plan" :> JList(<<JStr("premium"), JStr("enterprise")>>))],
     [ignore_test_events |-> JBool(FALSE), filter_by_date |-> JBool(FALSE)]}

\* A handler that is not running
Idle == [at |-> "idle"]

\* No request is being handled
NoHandler == [segment_webhook |-> Idle, update_filters |-> Idle]

----------------------------------------------------------------------------
(* Specification Spec: the service under arbitrary requests *)

Init ==
    /\ FILTER_CONFIG = DefaultConfig
    /\ recent_events = <<>>
    /\ now = Clock0
    /\ response = NoResponse
    /\ steps = NoSteps
    /\ arrivals = <<>>
    /\ evals = {}
    /\ pc = NoHandler

Ingest ==
    /\ Len(recent_events) < MaxIngest
    /\ \E body \in Bodies : segment_webhook(body)
    /\ UNCHANGED <<arrivals, evals, pc>>

UpdateFilters ==
    /\ \E new_config \in Partials : update_filters(new_config)
    /\ UNCHANGED <<arrivals, evals, pc>>

GetFilters == get_filters /\ UNCHANGED <<arrivals, evals, pc>>

GetRecent == get_recent_events /\ UNCHANGED <<arrivals, evals, pc>>

Next == Ingest \/ UpdateFilters \/ GetFilters \/ GetRecent

Spec == Init /\ [][Next]_vars

----------------------------------------------------------------------------
(* Specification SpecStore: a long stream of distinct events *)

\* The n-th event of the stream.  Each is distinct (userId ends in n); one in
\* three is an identify event, one in three comes from a test user and is
\* filtered out by the default config.
StreamEvent(n) ==
    CASE n % 3 = 0 -> JDict([type |-> JStr("identify"), userId |-> JStr("user_" \o NatToStr(n))])
      [] n % 3 = 1 -> Track([userId |-> JStr("test_user_" \o NatToStr(n))])
      [] OTHER -> Track([userId |-> JStr("user_" \o NatToStr(n))])

\* The next request of the stream: its next event, or bytes that are no JSON.
\* arrivals records what store_recent_event was called with.
IngestStream ==
    /\ Len(arrivals) < MaxStream
    /\ \E body \in {Malformed, Body(StreamEvent(Len(arrivals) + 1))} :
          /\ segment_webhook(body)
          /\ arrivals' = IF steps'.stored THEN Append(arrivals, body.data) ELSE arrivals
    /\ UNCHANGED <<evals, pc>>

NextStore == IngestStream \/ UpdateFilters \/ GetFilters \/ GetRecent

SpecStore == Init /\ [][NextStore]_vars

----------------------------------------------------------------------------
(* The buffer's capacity and order *)

Min(a, b) == IF a < b THEN a ELSE b

\* C1: in every reachable state the recent-event buffer holds at most
\* MAX_RECENT_EVENTS = 50 entries.
C1_BufferBounded == Len(recent_events) <= MAX_RECENT_EVENTS

\* the buffer is full and an event has been evicted
C1_Witness ==
    Len(recent_events) = MAX_RECENT_EVENTS /\ Len(arrivals) > MAX_RECENT_EVENTS

\* C2: after n events were appended the buffer is exactly the last
\* min(n, 50) of them in arrival order, oldest first; after 51 appends its
\* length is 50 and its first entry is the 2nd event appended.  Steps that
\* append nothing leave arrivals alone, so they remove no entry either.
C2_BufferIsLastArrivals ==
    LET n == Len(arrivals)
        k == Min(n, MAX_RECENT_EVENTS)
    IN /\ Len(recent_events) = k
       /\ \A i \in 1..k : recent_events[i].data = arrivals[n - k + i]
       /\ n = MAX_RECENT_EVENTS + 1 => recent_events[1].data = arrivals[2]

\* 51 distinct events were appended: the 1st is gone, the 2nd is the oldest
C2_Witness ==
    /\ Len(arrivals) = MAX_RECENT_EVENTS + 1
    /\ Len(recent_events) = MAX_RECENT_EVENTS
    /\ recent_events[1].data = arrivals[2]
    /\ \A i \in 1..Len(recent_events) : recent_events[i].data # arrivals[1]

----------------------------------------------------------------------------
(* Ingest: buffering, filtering, processing *)

\* The last call was segment_webhook on a body that parsed; its event is then
\* the newest entry of the buffer.
Ingested == steps.op = "segment_webhook" /\ steps.parsed
LastEvent == recent_events[Len(recent_events)].data
Accepted(d) == d.tag = "return" /\ d.val
Rejected(d) == d.tag = "return" /\ ~d.val

\* C3: an ingest call appends its event to the buffer if and only if the
\* payload parsed as JSON, whatever should_process_event decides (accept,
\* reject or an exception); the decision only controls whether a
\* process_*_event handler runs.
C3_BufferedIffParsed ==
    [][(steps'.op = "segment_webhook" /\ segment_webhook(steps'.body)) =>
          LET body == steps'.body
              kept == IF Len(recent_events) = MAX_RECENT_EVENTS
                      THEN Tail(recent_events) ELSE recent_events
          IN /\ body.parses =>
                   /\ recent_events' = Append(kept, [timestamp |-> now, data |-> body.data])
                   /\ steps'.decision.tag \in {"return", "raise"}
             /\ ~body.parses =>
                   /\ recent_events' = recent_events
                   /\ steps'.decision.tag = "none"
             /\ (steps'.handler # "none") <=> Accepted(steps'.decision)]_vars

\* a filtered event sits in the buffer and no handler ran for it
C3_Witness ==
    /\ Ingested /\ Rejected(steps.decision) /\ steps.handler = "none"
    /\ response = OK([status |-> "filtered"])
    /\ LastEvent = Track([userId |-> JStr("test_user_42")])

\* C4: an ingest whose payload does not parse is answered with the client
\* error 400, and the event is neither buffered nor filtered.
C4_MalformedIsClientError ==
    (steps.op = "segment_webhook" /\ ~steps.parsed) =>
        /\ response.code = 400
        /\ ~steps.stored
        /\ steps.decision.tag = "none"

----------------------------------------------------------------------------
(* The six stages as the specification words them *)

HasField(data, key) == IsDict(data) /\ key \in DOMAIN data.v
HasStrField(data, key) == HasField(data, key) /\ IsStr(data.v[key])
FieldOr(data, key, default) == IF HasField(data, key) THEN data.v[key] ELSE default

\* the members of a config list
Members(list) == {list.v[i] : i \in 1..Len(list.v)}

\* the event's type in lower case; "" when it has none
TypeOf(data) == IF HasStrField(data, "type") THEN Lower(data.v["type"].v) ELSE ""

\* 1. the type is on the allow-list
OnTypeList(data) == JStr(TypeOf(data)) \in Members(FILTER_CONFIG["allowed_event_types"])

\* 2. a track event's name is on the track allow-list, or that list is empty
OnTrackList(data) ==
    TypeOf(data) = "track" =>
        \/ Members(FILTER_CONFIG["allowed_track_events"]) = {}
        \/ FieldOr(data, "event", JStr("")) \in Members(FILTER_CONFIG["allowed_track_events"])

\* 3. no test pattern occurs in the event name, the user id, or the string
\*    forms of properties and traits
NoTestPattern(data) ==
    Truthy(FILTER_CONFIG["ignore_test_events"]) =>
        \A probe \in {FieldOr(data, "event", JStr("")), FieldOr(data, "userId", JStr("")),
                      FieldOr(data, "properties", EmptyDict), FieldOr(data, "traits", EmptyDict)} :
            \A pattern \in Members(FILTER_CONFIG["test_patterns"]) :
                ~Contains(pattern.v, Lower(PyStr(probe)))

\* 4. every property required of the event's type is there and truthy
HasRequired(data) ==
    LET required == FILTER_CONFIG["required_properties"].v IN
    TypeOf(data) \in DOMAIN required =>
        \A name \in Members(required[TypeOf(data)]) :
            HasField(data, name.v) /\ Truthy(data.v[name.v])

\* 5. every filtered path resolves to nothing, to a falsy value, or to an
\*    allowed value
MeetsValueFilters(data) ==
    LET filters == FILTER_CONFIG["property_filters"].v IN
    \A path \in DOMAIN filters :
        LET value == get_nested_value(data, path)
        IN Truthy(value) => value \in Members(filters[path])

\* 6. the event is fresh (the age test itself is the subject of C8)
IsFresh(data) ==
    Truthy(FILTER_CONFIG["filter_by_date"]) =>
        LET r == is_event_from_today(data) IN r.tag = "return" /\ r.val

\* the decision the six stages give, in their order
SixStages(data) ==
    IF ~OnTypeList(data) THEN Reject(1)
    ELSE IF ~OnTrackList(data) THEN Reject(2)
    ELSE IF ~NoTestPattern(data) THEN Reject(3)
    ELSE IF ~HasRequired(data) THEN Reject(4)
    ELSE IF ~MeetsValueFilters(data) THEN Reject(5)
    ELSE IF ~IsFresh(data) THEN Reject(6)
    ELSE Accept

\* C5: for every event and every config, should_process_event returns true
\* if and only if the event passes all six stages in their order; the first
\* failing stage yields false and no later stage is evaluated.
C5_ChainIsSixStages == Ingested => steps.decision = SixStages(LastEvent)

\* The same for the events whose type is a string or absent: the code's chain
\* and the six stages agree on all of them.
ChainOnTypedEvents ==
    (Ingested /\ IsDict(LastEvent) /\ (HasField(LastEvent, "type") => HasStrField(LastEvent, "type")))
        => steps.decision = SixStages(LastEvent)

\* C6: stage 1 matches the event type against allowed_event_types without
\* regard to letter case: a type equal to an entry up to case passes stage 1,
\* and an event whose type is absent or matches no entry is rejected there.
C6_TypeMatchIgnoresCase ==
    (Ingested /\ IsDict(LastEvent)) =>
        LET entries == Members(FILTER_CONFIG["allowed_event_types"])
            matches == \E entry \in entries : Lower(entry.v) = TypeOf(LastEvent)
        IN /\ (HasStrField(LastEvent, "type") /\ matches) =>
                  /\ steps.decision.tag = "return"
                  /\ (steps.decision.val \/ steps.decision.stage > 1)
           /\ (~HasField(LastEvent, "type") \/ (HasStrField(LastEvent, "type") /\ ~matches)) =>
                  steps.decision = Reject(1)

\* C9: the decision is never exceptional: for every parsed document and every
\* reachable config should_process_event returns true or false, and ingest
\* does not end in a server error.
C9_DecisionNeverRaises ==
    Ingested => (steps.decision.tag = "return" /\ response.code = 200)

----------------------------------------------------------------------------
(* The age window *)

\* What the timestamp of an event says, from the table of samples
SampleOf(data) ==
    IF HasField(data, "timestamp")
    THEN CHOOSE x \in TimestampSamples : x.value = data.v["timestamp"]
    ELSE [value |-> JNull, says |-> "absent", instant |-> 0]

\* The last ingest got as far as stage 6, and stage 6 was on with a numeric
\* max_age_hours
ReachedAgeStage ==
    /\ Ingested
    /\ recent_events[Len(recent_events)].timestamp = now   \* the clock has not moved since
    /\ steps.decision \in {Accept, Reject(6)}
    /\ Truthy(FILTER_CONFIG["filter_by_date"])
    /\ IsNumber(FILTER_CONFIG["max_age_hours"])

MaxAgeSeconds == NumberOf(FILTER_CONFIG["max_age_hours"]) * 3600

\* a parseable timestamp passes iff its age is at most max_age_hours, the
\* bound included; anything else passes
AgeRule ==
    LET x == SampleOf(LastEvent) IN
    IF x.says = "instant"
    THEN Accepted(steps.decision) <=> (now - x.instant <= MaxAgeSeconds)
    ELSE Accepted(steps.decision)

\* with max_age_hours = 24 at 2024-01-02T00:00:00Z
AgeExamples ==
    (FILTER_CONFIG["max_age_hours"] = JNum(24) /\ now = Clock0) =>
        /\ LastEvent = Stamped(JStr("2024-01-01T00:00:01Z")) => Accepted(steps.decision)
        /\ LastEvent = Stamped(JStr("2023-12-31T23:59:00Z")) => Rejected(steps.decision)

InFuture == SampleOf(LastEvent).says = "instant" /\ SampleOf(LastEvent).instant > now

\* C8 as stated: at stage 6 a parseable timestamp passes iff
\* (now - eventTime) in hours <= max_age_hours, a timestamp in the future
\* always passes, and an absent, empty, non-string or unparseable date field
\* passes.
C8_AgeWindowFutureAlwaysPasses ==
    ReachedAgeStage =>
        /\ AgeRule
        /\ AgeExamples
        /\ InFuture => Accepted(steps.decision)

\* C8 amended: the same, except that a timestamp in the future passes when
\* max_age_hours is not negative.
C8_AgeWindow ==
    ReachedAgeStage =>
        /\ AgeRule
        /\ AgeExamples
        /\ (InFuture /\ MaxAgeSeconds >= 0) => Accepted(steps.decision)

\* the event of 2023-12-31T23:59:00Z was found stale under the 24 hour window
C8_Witness ==
    /\ ReachedAgeStage
    /\ FILTER_CONFIG["max_age_hours"] = JNum(24) /\ now = Clock0
    /\ LastEvent = Stamped(JStr("2023-12-31T23:59:00Z"))
    /\ steps.decision = Reject(6)

----------------------------------------------------------------------------
(* Updates of the configuration *)

\* C10: update_filters sets exactly the keys of the request that the config
\* already has, leaves every other field alone, adds no key (the config has
\* the same keys in every reachable state) and leaves the buffer unchanged.
C10_UpdateMergesKnownKeys ==
    /\ [](DOMAIN FILTER_CONFIG = ConfigKeys)
    /\ [][\A new_config \in Partials : update_filters(new_config) =>
             /\ \A key \in DOMAIN FILTER_CONFIG \cap DOMAIN new_config :
                    FILTER_CONFIG'[key] = new_config[key]
             /\ \A key \in DOMAIN FILTER_CONFIG \ DOMAIN new_config :
                    FILTER_CONFIG'[key] = FILTER_CONFIG[key]
             /\ DOMAIN FILTER_CONFIG' = DOMAIN FILTER_CONFIG
             /\ recent_events' = recent_events]_vars

\* {max_age_hours: 1, unknownKey: "x"} was applied with an event in the buffer
C10_Witness ==
    /\ steps.op = "update_filters"
    /\ response.content.updated_filters = FILTER_CONFIG
    /\ FILTER_CONFIG = [DefaultConfig EXCEPT !["max_age_hours"] = JNum(1)]
    /\ "unknownKey" \notin DOMAIN FILTER_CONFIG
    /\ Len(recent_events) = 1

----------------------------------------------------------------------------
(* Specification SpecPure: the same event evaluated at several points *)

PureBodies ==
    {Body(Stamped(JStr("2024-01-01T00:00:01Z"))),
     Body(Track([userId |-> JStr("test_user_42")]))}

PurePartials ==
    {[max_age_hours |-> JNum(1), unknownKey |-> JStr("x")],
     [ignore_test_events |-> JBool(FALSE), filter_by_date |-> JBool(FALSE)]}

\* evals records each call of should_process_event: its argument, the config
\* and the clock it read, and what it gave.
IngestObserved ==
    /\ Len(recent_events) < MaxObserved
    /\ \E body \in PureBodies :
          /\ segment_webhook(body)
          /\ evals' = IF steps'.decision.tag = "none" THEN evals
                      ELSE evals \cup {[data |-> body.data, config |-> FILTER_CONFIG,
                                        now |-> now, result |-> steps'.decision]}
    /\ UNCHANGED <<arrivals, pc>>

UpdateObserved ==
    /\ \E new_config \in PurePartials : update_filters(new_config)
    /\ UNCHANGED <<arrivals, evals, pc>>

\* time passes
Tick ==
    /\ now < Clock0 + MaxTicks * TickSeconds
    /\ now' = now + TickSeconds
    /\ UNCHANGED <<FILTER_CONFIG, recent_events, response, steps, arrivals, evals, pc>>

NextPure == IngestObserved \/ UpdateObserved \/ Tick

SpecPure == Init /\ [][NextPure]_vars

\* C7 as stated: any two evaluations of should_process_event with the same
\* event and the same config give the same decision.
C7_DecisionOfEventAndConfig ==
    \A a, b \in evals : (a.data = b.data /\ a.config = b.config) => a.result = b.result

\* C7 amended: any two evaluations with the same event, the same config and
\* the same clock reading give the same decision, whatever was ingested before.
C7_DecisionOfEventConfigClock ==
    \A a, b \in evals :
        (a.data = b.data /\ a.config = b.config /\ a.now = b.now) => a.result = b.result

\* the same event was evaluated twice, with an empty buffer and with itself
\* in the buffer, under one config and clock reading, with one outcome
C7_Witness ==
    /\ Len(recent_events) = 2
    /\ recent_events[1] = recent_events[2]
    /\ Cardinality(evals) = 1
    /\ \A a \in evals : a.data = recent_events[1].data /\ Accepted(a.result)

----------------------------------------------------------------------------
(* Specification SpecConc: requests handled concurrently.  The handlers are  *)
(* coroutines of one event loop (uvicorn.run(app), line 772): a handler runs *)
(* until it awaits or returns.  segment_webhook awaits the request body; the *)
(* process_*_event coroutines it awaits never suspend; update_filters has no *)
(* await.                                                                    *)

ConcBodies == PureBodies

\* Updates of two keys, each to a value that differs from the default
ConcPartials ==
    {[ignore_test_events |-> JBool(FALSE), filter_by_date |-> JBool(FALSE)],
     [ignore_test_events |-> JBool(TRUE), filter_by_date |-> JBool(TRUE)],
     [max_age_hours |-> JNum(48), test_patterns |-> JList(<<JStr("debug")>>)]}

\* new_config without the items whose key is not in keys
Restrict(new_config, keys) == [key \in DOMAIN new_config \cap keys |-> new_config[key]]

\* The loop of update_filters awaiting after every item: one key per run
LoopRun_key_by_key(keys) == IF keys = {} THEN {} ELSE {CHOOSE key \in keys : TRUE}

\* The keys the loop of update_filters goes through before another handler
\* can run, of the keys it has yet to go through: lines 402-405 hold no
\* await, so all of them.
LoopRun(keys) == keys

\* segment_webhook is entered and suspends at "await request.body()".
\* committed collects the configs that stood, outside any run of
\* update_filters, while the request was being handled.
ReceiveRequest ==
    /\ pc.segment_webhook = Idle
    /\ Len(recent_events) < MaxObserved
    /\ \E body \in ConcBodies :
          pc' = [pc EXCEPT !.segment_webhook =
                    [at |-> "await body", body |-> body,
                     committed |-> {IF pc.update_filters = Idle THEN FILTER_CONFIG
                                    ELSE pc.update_filters.before}]]
    /\ UNCHANGED <<FILTER_CONFIG, recent_events, now, response, steps, arrivals, evals>>

\* The body has arrived: segment_webhook runs from line 108 to its return.
\* evals records the config should_process_event read.
ResumeRequest ==
    /\ pc.segment_webhook # Idle
    /\ segment_webhook(pc.segment_webhook.body)
    /\ evals' = IF steps'.decision.tag = "none" THEN evals
                ELSE evals \cup {[data |-> pc.segment_webhook.body.data,
                                  config |-> FILTER_CONFIG,
                                  committed |-> pc.segment_webhook.committed,
                                  result |-> steps'.decision]}
    /\ pc' = [pc EXCEPT !.segment_webhook = Idle]
    /\ UNCHANGED arrivals

\* What a run of update_filters from position at does: the items merged and
\* where the handler stands afterwards
UpdateRun(at, new_config) ==
    [merged |-> Restrict(new_config, LoopRun(at.rest)),
     pc |-> IF at.rest \ LoopRun(at.rest) = {} THEN Idle
            ELSE [at EXCEPT !.rest = at.rest \ LoopRun(at.rest)]]

\* update_filters is called with a new request, or goes on where it stood
UpdateEntry(new_config) ==
    IF pc.update_filters = Idle
    THEN [at |-> "loop", new_config |-> new_config, before |-> FILTER_CONFIG,
          rest |-> DOMAIN new_config]
    ELSE pc.update_filters

UpdateConcurrent ==
    \E new_config \in (IF pc.update_filters = Idle THEN ConcPartials
                       ELSE {pc.update_filters.new_config}) :
        /\ update_filters(UpdateRun(UpdateEntry(new_config), new_config).merged)
        /\ pc' = [update_filters |-> UpdateRun(UpdateEntry(new_config), new_config).pc,
                  segment_webhook |->
                      IF pc.segment_webhook # Idle
                         /\ UpdateRun(UpdateEntry(new_config), new_config).pc = Idle
                      THEN [pc.segment_webhook EXCEPT !.committed = @ \cup {FILTER_CONFIG'}]
                      ELSE pc.segment_webhook]
        /\ UNCHANGED <<arrivals, evals>>

NextConc == ReceiveRequest \/ ResumeRequest \/ UpdateConcurrent

SpecConc == Init /\ [][NextConc]_vars

\* C11: every evaluation of should_process_event reads a config that stood
\* before or after an update in full while its request was handled: the
\* config at the time the request came in, or the config a whole call of
\* update_filters left; never a config with some of an update's keys merged
\* and others not.
C11_DecisionSeesWholeConfig == \A e \in evals : e.config \in e.committed

\* an update of two keys ran while a request waited for its body, and the
\* decision of that request read both new values
C11_Witness ==
    \E e \in evals :
        /\ Cardinality(e.committed) = 2
        /\ \E old \in e.committed :
              Cardinality({key \in ConfigKeys : old[key] # e.config[key]}) = 2

----------------------------------------------------------------------------
(* Specification SpecAgg: read queries over buffers of several events *)

MaxBuffered == 3    \* SpecAgg: events in the buffer

T1 == JStr("2024-01-01T23:00:00Z")
T2 == JStr("2024-01-01T23:10:00Z")
T3 == JStr("2024-01-01T23:30:00Z")

\* An event of a session named under properties
InSession(type, event, session_id, timestamp, userId) ==
    JDict([type |-> JStr(type), event |-> JStr(event), userId |-> JStr(userId),
           timestamp |-> timestamp,
           properties |-> JDict([session_id |-> JStr(session_id),
                                 screen_name |-> JStr("Home")])])

\* Events of two sessions and of none, and documents of unexpected shape
AggEvents ==
    {InSession("track", "A", "S1", T2, "uB"),
     InSession("track", "A", "S1", T1, "uA"),
     InSession("identify", "B", "S1", T3, "uA"),
     \* a session named under context.traits, no timestamp
     JDict([type |-> JStr("track"), event |-> JStr("B"), userId |-> JStr("uB"),
            anonymousId |-> JStr("anon-2"),
            context |-> JDict([traits |-> JDict([session_id |-> JStr("S2")]),
                               device |-> JDict([model |-> JStr("Pixel")]),
                               timezone |-> JStr("America/Sao_Paulo")])]),
     \* no session id, no user
     JDict([type |-> JStr("track"), event |-> JStr("B")]),
     \* a timestamp that is a number
     JDict([type |-> JStr("page"), userId |-> JNum(7), timestamp |-> JNum(1704150000),
            properties |-> JDict([session_id |-> JStr("S1")])]),
     \* a document that is no mapping
     JList(<<JStr("track")>>)}

AggBodies == {Body(e) : e \in AggEvents}

IngestAgg ==
    /\ Len(recent_events) < MaxBuffered
    /\ \E body \in AggBodies : segment_webhook(body)
    /\ UNCHANGED <<arrivals, evals, pc>>

GetStats == get_webhook_stats /\ UNCHANGED <<arrivals, evals, pc>>

GetSessions == get_sessions_analysis /\ UNCHANGED <<arrivals, evals, pc>>

NextAgg == IngestAgg \/ GetStats \/ GetSessions \/ GetFilters \/ GetRecent

SpecAgg == Init /\ [][NextAgg]_vars

----------------------------------------------------------------------------
(* Specification SpecStats: statistics over buffers of several events *)

MaxCounted == 4     \* SpecStats: events in the buffer

\* Events of two types, three names and two users, an event without type
\* and with an empty userId, and a document that is no mapping
StatsEvents ==
    {InSession("track", "A", "S1", T2, "uB"),
     InSession("track", "A", "S1", T1, "uA"),
     InSession("identify", "B", "S1", T3, "uA"),
     JDict([type |-> JStr("track"), event |-> JStr("B"), userId |-> JStr("uB")]),
     JDict([event |-> JStr("A"), userId |-> JStr("")]),
     JList(<<JStr("track")>>)}

IngestCounted ==
    /\ Len(recent_events) < MaxCounted
    /\ \E body \in {Body(e) : e \in StatsEvents} : segment_webhook(body)
    /\ UNCHANGED <<arrivals, evals, pc>>

NextStats == IngestCounted \/ GetStats

SpecStats == Init /\ [][NextStats]_vars

----------------------------------------------------------------------------
(* Specification SpecReads: read queries repeated between two ingests *)

MaxRead == 2        \* SpecReads: events in the buffer

ReadEvents ==
    {InSession("track", "A", "S1", T2, "uB"),
     InSession("track", "A", "S1", T1, "uA"),
     JList(<<JStr("track")>>)}

\* evals records what get_webhook_stats and get_sessions_analysis returned
\* since the last call of segment_webhook.
IngestRead ==
    /\ Len(recent_events) < MaxRead
    /\ \E body \in {Body(e) : e \in ReadEvents} : segment_webhook(body)
    /\ evals' = {}
    /\ UNCHANGED <<arrivals, pc>>

StatsRead ==
    /\ get_webhook_stats
    /\ evals' = evals \cup {[op |-> "get_webhook_stats", result |-> response']}
    /\ UNCHANGED <<arrivals, pc>>

SessionsRead ==
    /\ get_sessions_analysis
    /\ evals' = evals \cup {[op |-> "get_sessions_analysis", result |-> response']}
    /\ UNCHANGED <<arrivals, pc>>

NextReads ==
    IngestRead \/ StatsRead \/ SessionsRead \/ GetFilters \/ GetRecent \/ UpdateObserved

SpecReads == Init /\ [][NextReads]_vars

ReadOps == {"get_webhook_stats", "get_sessions_analysis", "get_recent_events", "get_filters"}

\* C12: a call of get_webhook_stats, get_sessions_analysis, get_recent_events
\* or get_filters leaves the buffer and the config as they were, and all the
\* calls of get_webhook_stats, and all those of get_sessions_analysis, made
\* between two calls of segment_webhook return the same result.
C12_ReadsAreIdempotent ==
    /\ [](\A a, b \in evals : a.op = b.op => a.result = b.result)
    /\ [][steps'.op \in ReadOps =>
             recent_events' = recent_events /\ FILTER_CONFIG' = FILTER_CONFIG]_vars

\* both queries were answered over a buffer of two events of one session,
\* under a config changed since, and the buffer still holds the two events
\* in the order they came
C12_Witness ==
    /\ Cardinality(evals) = 2
    /\ \A a \in evals : a.result.code = 200
    /\ steps.op \in ReadOps
    /\ FILTER_CONFIG # DefaultConfig
    /\ Len(recent_events) = 2
    /\ recent_events[1].data = InSession("track", "A", "S1", T2, "uB")
    /\ recent_events[2].data = InSession("track", "A", "S1", T1, "uA")

----------------------------------------------------------------------------
(* Session summaries *)

RECURSIVE PathOr(_, _, _)
\* The value at a path of nested mappings, default where the path ends early
PathOr(data, keys, default) ==
    IF keys = <<>> THEN data
    ELSE IF HasField(data, Head(keys)) THEN PathOr(data.v[Head(keys)], Tail(keys), default)
    ELSE default

\* The session id of an event: properties.session_id, else
\* context.traits.session_id, else none
SessionOf(data) ==
    IF HasField(PathOr(data, <<"properties">>, JNull), "session_id")
    THEN PathOr(data, <<"properties", "session_id">>, JNull)
    ELSE PathOr(data, <<"context", "traits", "session_id">>, JNull)

\* The positions in the buffer of the events of a session
MembersOf(session_id) ==
    {i \in 1..Len(recent_events) :
        Truthy(SessionOf(recent_events[i].data))
        /\ SessionOf(recent_events[i].data) = session_id}

\* The timestamp an event is sorted by: '' when it has none
StampOf(data) == SortKey(FieldOr(data, "timestamp", JStr("")))

\* The member of a session that was inserted first
FirstInserted(session_id) ==
    recent_events[CHOOSE i \in MembersOf(session_id) :
                      \A j \in MembersOf(session_id) : i <= j].data

\* The member of a session with the least timestamp, the one inserted first
\* among those that share it
Earliest(session_id) ==
    recent_events[CHOOSE i \in MembersOf(session_id) :
                      \A j \in MembersOf(session_id) \ {i} :
                          \/ PyLess(StampOf(recent_events[i].data),
                                    StampOf(recent_events[j].data)).val
                          \/ /\ StampOf(recent_events[i].data) = StampOf(recent_events[j].data)
                             /\ i < j].data

\* get_sessions_analysis has returned a list of summaries
SessionsAnswered == steps.op = "get_sessions_analysis" /\ response.code = 200

Summaries == response.content.sessions

\* The attribution fields of a summary are those of the event
AttributedTo(summary, data) ==
    /\ summary.user_id = FieldOr(data, "userId", JNull)
    /\ summary.anonymous_id = FieldOr(data, "anonymousId", JNull)
    /\ summary.device_model = PathOr(data, <<"context", "device", "model">>, JNull)
    /\ summary.os_version = PathOr(data, <<"context", "os", "version">>, JNull)
    /\ summary.timezone = PathOr(data, <<"context", "timezone">>, JNull)
    /\ summary.network = PathOr(data, <<"context", "network">>, EmptyDict)

\* The members of a summary are listed in ascending order of timestamp
ListedByTime(summary) ==
    \A i, j \in 1..Len(summary.events) :
        i < j => ~PyLess(SortKey(summary.events[j].timestamp),
                         SortKey(summary.events[i].timestamp)).val

\* C13 as stated: every summary lists its members in order of timestamp and
\* takes its attribution fields from the member that was inserted first.
C13_AttributionFromFirstInserted ==
    SessionsAnswered =>
        \A k \in 1..Len(Summaries) :
            /\ ListedByTime(Summaries[k])
            /\ AttributedTo(Summaries[k], FirstInserted(Summaries[k].session_id))

\* C13 amended: every summary lists its members in order of timestamp and
\* takes its attribution fields from the member listed first, the one with
\* the least timestamp (the one inserted first among those that share it).
C13_AttributionFromEarliest ==
    SessionsAnswered =>
        \A k \in 1..Len(Summaries) :
            /\ ListedByTime(Summaries[k])
            /\ AttributedTo(Summaries[k], Earliest(Summaries[k].session_id))

\* the events of T2, T1 and T3 were inserted in that order: the summary lists
\* T1, T2, T3 and carries the userId of the T1 event
C13_Witness ==
    /\ SessionsAnswered
    /\ Len(recent_events) = 3
    /\ recent_events[1].data = InSession("track", "A", "S1", T2, "uB")
    /\ recent_events[2].data = InSession("track", "A", "S1", T1, "uA")
    /\ recent_events[3].data = InSession("identify", "B", "S1", T3, "uA")
    /\ Len(Summaries) = 1
    /\ [i \in 1..3 |-> Summaries[1].events[i].timestamp] = <<T1, T2, T3>>
    /\ Summaries[1].user_id = JStr("uA")

----------------------------------------------------------------------------
(* Specification SpecRank: more sessions than a response lists *)

MaxSessions == 22   \* SpecRank: events of the stream, each of a session of its own

TwoDigits(n) == IF n < 10 THEN "0" \o NatToStr(n) ELSE NatToStr(n)

\* The n-th event of the stream: the only event of session s<n>, its time of
\* day going up and down with n; every fifth has no timestamp.
RankEvent(n) ==
    IF n % 5 = 0
    THEN JDict([type |-> JStr("track"), event |-> JStr("A"),
                properties |-> JDict([session_id |-> JStr("s" \o NatToStr(n))])])
    ELSE InSession("track", "A", "s" \o NatToStr(n),
                   JStr("2024-01-01T" \o TwoDigits((n * 7) % 24) \o ":00:00Z"), "uA")

\* The event of the stream, or in its place an event of the session whose
\* timestamp is a number
RankBodies(n) ==
    {Body(RankEvent(n)),
     Body(JDict([type |-> JStr("page"), timestamp |-> JNum(1704150000),
                 properties |-> JDict([session_id |-> JStr("s" \o NatToStr(n))])]))}

IngestRank ==
    /\ Len(recent_events) < MaxSessions
    /\ \E body \in IF Len(recent_events) < 2 THEN RankBodies(Len(recent_events) + 1)
                  ELSE {Body(RankEvent(Len(recent_events) + 1))} :
          segment_webhook(body)
    /\ UNCHANGED <<arrivals, evals, pc>>

NextRank == IngestRank \/ GetSessions \/ GetStats

SpecRank == Init /\ [][NextRank]_vars

\* The ids of the sessions that have an event in the buffer
SessionIds ==
    {SessionOf(recent_events[i].data) :
        i \in {j \in 1..Len(recent_events) : Truthy(SessionOf(recent_events[j].data))}}

\* What a member list shows of an event
Listed(data) ==
    [event |-> FieldOr(data, "event", JStr("unknown")),
     timestamp |-> FieldOr(data, "timestamp", JStr("")),
     screen |-> PathOr(data, <<"properties", "screen_name">>, JNull)]

\* The member list of a summary holds the events of its session, each as
\* often as the buffer does, and no other
ListsItsMembers(summary) ==
    /\ summary.total_events = Cardinality(MembersOf(summary.session_id))
    /\ Len(summary.events) = summary.total_events
    /\ \A i \in MembersOf(summary.session_id) :
          Cardinality({k \in 1..Len(summary.events) :
                          summary.events[k] = Listed(recent_events[i].data)})
          = Cardinality({j \in MembersOf(summary.session_id) :
                            Listed(recent_events[j].data) = Listed(recent_events[i].data)})

\* The greatest timestamp of a session's events
LastStampOf(session_id) ==
    StampOf(recent_events[CHOOSE i \in MembersOf(session_id) :
                \A j \in MembersOf(session_id) :
                    ~PyLess(StampOf(recent_events[i].data),
                            StampOf(recent_events[j].data)).val].data)

\* The summaries are those of distinct sessions of the buffer, each with its
\* members in order of timestamp; they come in descending order of
\* last_event_time and are the twenty greatest when there are more.
PartitionsBuffer ==
    /\ response.content.total_sessions = Cardinality(SessionIds)
    /\ Len(Summaries) = Min(20, Cardinality(SessionIds))
    /\ \A k \in 1..Len(Summaries) :
          /\ Summaries[k].session_id \in SessionIds
          /\ ListsItsMembers(Summaries[k])
          /\ ListedByTime(Summaries[k])
          /\ SortKey(Summaries[k].last_event_time) = LastStampOf(Summaries[k].session_id)
          /\ \A l \in 1..Len(Summaries) :
                /\ k # l => Summaries[k].session_id # Summaries[l].session_id
                /\ k < l => ~PyLess(SortKey(Summaries[k].last_event_time),
                                    SortKey(Summaries[l].last_event_time)).val
          /\ \A id \in SessionIds \ {Summaries[l].session_id : l \in 1..Len(Summaries)} :
                ~PyLess(SortKey(Summaries[k].last_event_time), LastStampOf(id)).val

\* C14: a call of get_sessions_analysis returns the summaries that partition
\* the buffered events by session id: each lists exactly the events of its
\* session in ascending order of timestamp, an event without session id is
\* in none, and the twenty sessions of greatest last_event_time are returned
\* in descending order.
C14_SessionsPartitionBuffer ==
    steps.op = "get_sessions_analysis" => response.code = 200 /\ PartitionsBuffer

\* The same of the calls that return summaries
PartitionWhenAnswered == SessionsAnswered => PartitionsBuffer

\* more than twenty sessions were ranked
RankedMoreThanTwenty ==
    SessionsAnswered /\ Cardinality(SessionIds) > 20 /\ Len(Summaries) = 20

----------------------------------------------------------------------------
(* Aggregation over events of any shape *)

\* The duration of a summary is 0 when the timestamp of its first or of its
\* last member does not read as a time
ZeroWhenUnreadable(summary) ==
    (\/ ~IsoTime(summary.first_event_time).ok
     \/ ~IsoTime(summary.last_event_time).ok) => summary.duration = 0

\* C15: whatever documents were ingested, get_webhook_stats and
\* get_sessions_analysis return a result and not an error, and a session
\* whose duration cannot be computed has duration 0.
C15_AggregationNeverAborts ==
    steps.op \in {"get_webhook_stats", "get_sessions_analysis"} =>
        /\ response.code = 200
        /\ steps.op = "get_sessions_analysis" =>
              \A k \in 1..Len(Summaries) : ZeroWhenUnreadable(Summaries[k])

\* The duration default alone, of the calls that return summaries
DurationDefaultWhenAnswered ==
    SessionsAnswered => \A k \in 1..Len(Summaries) : ZeroWhenUnreadable(Summaries[k])

\* two events without timestamp made a session of duration 0
DurationDefaulted ==
    /\ SessionsAnswered
    /\ \E k \in 1..Len(Summaries) :
          /\ Summaries[k].total_events = 2
          /\ Summaries[k].first_event_time = JStr("")
          /\ Summaries[k].duration = 0

----------------------------------------------------------------------------
(* Statistics *)

\* The type and the name an event is counted under
TypeCounted(data) == FieldOr(data, "type", JStr("unknown"))
NameCounted(data) == FieldOr(data, "event", JStr("unknown"))

Buffered == 1..Len(recent_events)
TrackEvents == {i \in Buffered : TypeCounted(recent_events[i].data) = JStr("track")}

RECURSIVE SumOfCounts(_)
SumOfCounts(hist) == IF hist = <<>> THEN 0 ELSE Head(hist).count + SumOfCounts(Tail(hist))

\* hist maps each value of Of over the events at positions to the number of
\* those events with that value, and has no other key
Histogram(hist, positions, Of(_)) ==
    /\ \A i \in positions : \E k \in 1..Len(hist) : hist[k].key = Of(recent_events[i].data)
    /\ \A k \in 1..Len(hist) :
          /\ hist[k].count = Cardinality({i \in positions : Of(recent_events[i].data) = hist[k].key})
          /\ hist[k].count > 0
          /\ \A l \in 1..Len(hist) : k # l => hist[k].key # hist[l].key
    /\ SumOfCounts(hist) = Cardinality(positions)

\* The distinct userId values that are truthy
UserIds ==
    {FieldOr(recent_events[i].data, "userId", JNull) :
        i \in {j \in Buffered : Truthy(FieldOr(recent_events[j].data, "userId", JNull))}}

\* What get_webhook_stats is to report over a buffer that is not empty
CountsBuffer ==
    /\ response.content.total_events = Len(recent_events)
    /\ Histogram(response.content.event_types, Buffered, TypeCounted)
    /\ Histogram(response.content.track_events, TrackEvents, NameCounted)
    /\ response.content.unique_users = Cardinality(UserIds)
    /\ response.content.first_event = recent_events[1].timestamp
    /\ response.content.last_event = recent_events[Len(recent_events)].timestamp

\* What it is to report over an empty one
EmptyStats ==
    /\ response.content.total_events = 0
    /\ DOMAIN response.content = {"status", "message", "total_events"}

\* C16: a call of get_webhook_stats returns the counts of the buffer (the
\* total, the events of each type, the track events of each name, the
\* distinct truthy userIds, the receipt times of the oldest and the newest
\* entry), and over an empty buffer the empty result with total 0.
C16_StatsCountBuffer ==
    steps.op = "get_webhook_stats" =>
        /\ response.code = 200
        /\ IF recent_events = <<>> THEN EmptyStats ELSE CountsBuffer

\* The same of the calls that return a result
CountsWhenAnswered ==
    (steps.op = "get_webhook_stats" /\ response.code = 200) =>
        IF recent_events = <<>> THEN EmptyStats ELSE CountsBuffer

\* the example: track/A, track/A, identify, track/B of two users
StatsExample ==
    /\ steps.op = "get_webhook_stats"
    /\ Len(recent_events) = 4
    /\ [i \in 1..4 |-> <<TypeCounted(recent_events[i].data).v, NameCounted(recent_events[i].data).v>>]
         = <<(<<"track", "A">>), (<<"track", "A">>), (<<"identify", "B">>), (<<"track", "B">>)>>
    /\ response.code = 200
    /\ response.content.event_types
         = <<[key |-> JStr("track"), count |-> 3], [key |-> JStr("identify"), count |-> 1]>>
    /\ response.content.track_events
         = <<[key |-> JStr("A"), count |-> 2], [key |-> JStr("B"), count |-> 1]>>
    /\ response.content.unique_users = 2

====
